---- MODULE Spec2Model ----
(***************************************************************************)
(* Ledger engine of controle-financeiro-python: the FinanceManager store   *)
(* (transactions, budgets, goals), its reports, its persistence with an    *)
(* integrity digest, and the session start of FinancialApp.                *)
(*                                                                         *)
(* Python values are modelled as follows.                                  *)
(*   str        a sequence of one-character strings                        *)
(*   datetime   [year, month, day] (time of day is always midnight)        *)
(*   float/int  [t |-> "num", v |-> n] for the whole number n, and          *)
(*              [t |-> "nan"] for float('nan')                              *)
(*   None       <<>>, and a supplied optional argument x is <<x>>          *)
(*   dict       a function whose DOMAIN is the set of keys                 *)
(*   md5(pickle.dumps(x))  [md5 |-> x]: equal digests iff equal payloads   *)
(***************************************************************************)
EXTENDS Integers, Sequences, FiniteSets, TLC

\* ------------------------------------------------------------------ bounds

\* Most transactions the store holds in a checked run.
MaxTx == 2

\* The most that is saved towards one goal.
MaxSaved == 3

\* The most characters typed at one prompt.
MaxText == 5

\* ----------------------------------------------------------------- strings

UpperCase == <<"A", "B", "C", "D", "E", "I", "P", "R", "S", "T", "X">>
LowerCase == <<"a", "b", "c", "d", "e", "i", "p", "r", "s", "t", "x">>

\* str.lower() on one character.
LowerChar(c) ==
    IF \E i \in 1..Len(UpperCase) : UpperCase[i] = c
    THEN LowerCase[CHOOSE i \in 1..Len(UpperCase) : UpperCase[i] = c]
    ELSE c

\* str.lower()
Lower(s) == [i \in 1..Len(s) |-> LowerChar(s[i])]

IsSpace(c) == c = " "

RECURSIVE LStrip(_)
LStrip(s) ==
    IF s # <<>> /\ IsSpace(Head(s)) THEN LStrip(Tail(s)) ELSE s

RECURSIVE RStrip(_)
RStrip(s) ==
    IF s # <<>> /\ IsSpace(s[Len(s)]) THEN RStrip(SubSeq(s, 1, Len(s) - 1)) ELSE s

\* str.strip()
Strip(s) == RStrip(LStrip(s))

receita == <<"r", "e", "c", "e", "i", "t", "a">>
despesa == <<"d", "e", "s", "p", "e", "s", "a">>

\* The list literal ["receita", "despesa"] of the kind checks.
TransactionTypes == {receita, despesa}

\* ---------------------------------------------------------------- optional

None == <<>>
Some(x) == <<x>>

\* ------------------------------------------------------------------- dates

IsLeap(y) == (y % 4 = 0 /\ y % 100 # 0) \/ y % 400 = 0

DaysInMonth(y, m) ==
    IF m = 2 THEN (IF IsLeap(y) THEN 29 ELSE 28)
    ELSE IF m \in {4, 6, 9, 11} THEN 30 ELSE 31

DateTime(y, m, d) == [year |-> y, month |-> m, day |-> d]

\* datetime.__lt__
DateLess(a, b) ==
    \/ a.year < b.year
    \/ a.year = b.year /\ a.month < b.month
    \/ a.year = b.year /\ a.month = b.month /\ a.day < b.day

DateLeq(a, b) == a = b \/ DateLess(a, b)

\* A date argument: a datetime object, a string, or a value of another type.
\* A string is kept as the three numbers it writes between its separators
\* (fmt says whether it has the shape digits-digits-4 digits at all).
DateObj(y, m, d) == [tag |-> "datetime", value |-> DateTime(y, m, d)]
DateStr(d, m, y) == [tag |-> "str", fmt |-> TRUE, d |-> d, m |-> m, y |-> y]
DateStrMalformed == [tag |-> "str", fmt |-> FALSE]
DateOther == [tag |-> "other"]

\* datetime.strptime(s, "%d-%m-%Y"): <<>> for ValueError, else <<datetime>>.
strptime(s) ==
    IF /\ s.fmt
       /\ s.y >= 1 /\ s.y <= 9999
       /\ s.m >= 1 /\ s.m <= 12
       /\ s.d >= 1 /\ s.d <= DaysInMonth(s.y, s.m)
    THEN Some(DateTime(s.y, s.m, s.d))
    ELSE None

\* ----------------------------------------------------------------- amounts

\* An amount argument: a number, float('nan'), or a value that is no int or
\* float.
Num(n) == [t |-> "num", v |-> n]
NaN == [t |-> "nan"]
NotNum == [t |-> "str"]

\* isinstance(amount, (int, float))
IsNumber(a) == a.t \in {"num", "nan"}

\* x <= 0, x > y, x + y and x - y on floats: a comparison with nan is False,
\* arithmetic with nan gives nan.
LeZero(x) == x.t = "num" /\ x.v <= 0
Greater(x, y) == x.t = "num" /\ y.t = "num" /\ x.v > y.v
Plus(x, y) == IF x.t = "num" /\ y.t = "num" THEN Num(x.v + y.v) ELSE NaN
Minus(x, y) == IF x.t = "num" /\ y.t = "num" THEN Num(x.v - y.v) ELSE NaN

\* ------------------------------------------------------------------- state

VARIABLES
    transactions,   \* FinanceManager.transactions: list of transaction dicts
    budgets,        \* FinanceManager.budgets: category -> limit
    goals,          \* FinanceManager.goals: name -> goal record
    fs,             \* the files of the working directory: name -> content
    loaded,         \* the manager the last load_from_file call returned
    filtered,       \* the list the last filter_transactions call returned
    call            \* the last call made and what it returned

vars == <<transactions, budgets, goals, fs, loaded, filtered, call>>

EmptyDict == [k \in {} |-> 0]

\* FinanceManager.__init__
NewManager == [transactions |-> <<>>, budgets |-> EmptyDict, goals |-> EmptyDict]

Manager == [transactions |-> transactions, budgets |-> budgets, goals |-> goals]

\* ------------------------------------------------------- transaction store

\* What a mutator hands back: its return value, the message it printed, and
\* the transaction list it leaves behind.
Ret(ok, msg, txs) == [ok |-> ok, msg |-> msg, transactions |-> txs]

\* Insert t behind every element whose date is not later than t's.
RECURSIVE InsertByDate(_, _)
InsertByDate(s, t) ==
    IF s = <<>> THEN <<t>>
    ELSE IF DateLess(t.date, s[Len(s)].date)
         THEN Append(InsertByDate(SubSeq(s, 1, Len(s) - 1), t), s[Len(s)])
         ELSE Append(s, t)

\* list.sort(key=lambda x: x['date']): a stable sort.
RECURSIVE SortByDate(_)
SortByDate(s) ==
    IF s = <<>> THEN <<>>
    ELSE InsertByDate(SortByDate(SubSeq(s, 1, Len(s) - 1)), s[Len(s)])

\* The date conversion of add_transaction: <<>> when the call must fail.
ConvertDate(date) ==
    IF date.tag = "str" THEN strptime(date)
    ELSE IF date.tag = "datetime" THEN Some(date.value)
    ELSE None

\* add_transaction testing description and category without strip().
add_transaction_no_strip(txs, description, amount, transaction_type, category, date) ==
    IF Lower(transaction_type) \notin TransactionTypes
    THEN Ret(FALSE, "tipo_invalido", txs)
    ELSE IF ~IsNumber(amount) \/ LeZero(amount)
    THEN Ret(FALSE, "valor_invalido", txs)
    ELSE IF ConvertDate(date) = None
    THEN Ret(FALSE, "data_invalida", txs)
    ELSE IF description = <<>>
    THEN Ret(FALSE, "descricao_vazia", txs)
    ELSE IF category = <<>>
    THEN Ret(FALSE, "categoria_vazia", txs)
    ELSE Ret(TRUE, "",
             SortByDate(Append(txs,
                 [description |-> Strip(description),
                  amount |-> amount,
                  type |-> Lower(transaction_type),
                  category |-> Strip(category),
                  date |-> ConvertDate(date)[1]])))

\* add_transaction that appends and never sorts.
add_transaction_no_sort(txs, description, amount, transaction_type, category, date) ==
    IF \/ Lower(transaction_type) \notin TransactionTypes
       \/ ~IsNumber(amount) \/ LeZero(amount)
       \/ ConvertDate(date) = None
       \/ Strip(description) = <<>>
       \/ Strip(category) = <<>>
    THEN Ret(FALSE, "invalido", txs)
    ELSE Ret(TRUE, "",
             Append(txs,
                 [description |-> Strip(description),
                  amount |-> amount,
                  type |-> Lower(transaction_type),
                  category |-> Strip(category),
                  date |-> ConvertDate(date)[1]]))

add_transaction(txs, description, amount, transaction_type, category, date) ==
    IF Lower(transaction_type) \notin TransactionTypes
    THEN Ret(FALSE, "tipo_invalido", txs)
    ELSE IF ~IsNumber(amount) \/ LeZero(amount)
    THEN Ret(FALSE, "valor_invalido", txs)
    ELSE IF ConvertDate(date) = None
    THEN Ret(FALSE, "data_invalida", txs)
    ELSE IF Strip(description) = <<>>
    THEN Ret(FALSE, "descricao_vazia", txs)
    ELSE IF Strip(category) = <<>>
    THEN Ret(FALSE, "categoria_vazia", txs)
    ELSE Ret(TRUE, "",
             SortByDate(Append(txs,
                 [description |-> Strip(description),
                  amount |-> amount,
                  type |-> Lower(transaction_type),
                  category |-> Strip(category),
                  date |-> ConvertDate(date)[1]])))

\* edit_transaction storing each new value before it checks it.
edit_transaction_assign_first(txs, index, description, amount, transaction_type) ==
    IF index < 0 \/ index >= Len(txs)
    THEN Ret(FALSE, "indice_invalido", txs)
    ELSE
      LET t0 == txs[index + 1]
          Put(t) == [txs EXCEPT ![index + 1] = t]
          t1 == IF description # None
                THEN [t0 EXCEPT !.description = Strip(description[1])]
                ELSE t0
          t2 == IF amount # None /\ IsNumber(amount[1])
                THEN [t1 EXCEPT !.amount = amount[1]]
                ELSE t1
          t3 == IF transaction_type # None
                THEN [t2 EXCEPT !.type = Lower(transaction_type[1])]
                ELSE t2
      IN
      IF description # None /\ Strip(description[1]) = <<>>
      THEN Ret(FALSE, "descricao_vazia", Put(t1))
      ELSE IF amount # None /\ (~IsNumber(amount[1]) \/ LeZero(amount[1]))
      THEN Ret(FALSE, "valor_invalido", Put(t2))
      ELSE IF transaction_type # None
              /\ Lower(transaction_type[1]) \notin TransactionTypes
      THEN Ret(FALSE, "tipo_invalido", Put(t3))
      ELSE Ret(TRUE, "", Put(t3))

\* edit_transaction works on the dict stored in the list, so every assignment
\* made before a later check fails stays in the list.
edit_transaction(txs, index, description, amount, transaction_type) ==
    IF index < 0 \/ index >= Len(txs)
    THEN Ret(FALSE, "indice_invalido", txs)
    ELSE
      LET t0 == txs[index + 1]
          Put(t) == [txs EXCEPT ![index + 1] = t]
      IN
      IF description # None /\ Strip(description[1]) = <<>>
      THEN Ret(FALSE, "descricao_vazia", txs)
      ELSE
        LET t1 == IF description # None
                  THEN [t0 EXCEPT !.description = Strip(description[1])]
                  ELSE t0
        IN
        IF amount # None /\ (~IsNumber(amount[1]) \/ LeZero(amount[1]))
        THEN Ret(FALSE, "valor_invalido", Put(t1))
        ELSE
          LET t2 == IF amount # None
                    THEN [t1 EXCEPT !.amount = amount[1]]
                    ELSE t1
          IN
          IF transaction_type # None
             /\ Lower(transaction_type[1]) \notin TransactionTypes
          THEN Ret(FALSE, "tipo_invalido", Put(t2))
          ELSE
            LET t3 == IF transaction_type # None
                      THEN [t2 EXCEPT !.type = Lower(transaction_type[1])]
                      ELSE t2
            IN Ret(TRUE, "", Put(t3))

\* list.pop(index) for 0 <= index < len.
Pop(s, index) == SubSeq(s, 1, index) \o SubSeq(s, index + 2, Len(s))

\* remove_transaction that drops the last element whatever the index.
remove_transaction_pop_last(txs, index) ==
    IF index < 0 \/ index >= Len(txs)
    THEN Ret(FALSE, "indice_invalido", txs)
    ELSE Ret(TRUE, "", Pop(txs, Len(txs) - 1))

remove_transaction(txs, index) ==
    IF index < 0 \/ index >= Len(txs)
    THEN Ret(FALSE, "indice_invalido", txs)
    ELSE Ret(TRUE, "", Pop(txs, index))

\* ------------------------------------------------------------------ filter

\* "if x:" on an optional string: None and '' both count as not given.
Truthy(x) == x # None /\ x[1] # <<>>

\* An element of a list that filter_transactions returned: the dict itself
\* is shared with the store, so the entry is the dict's place in the store
\* (0 once the store has dropped it) beside the dict's fields.
Entry(at, val) == [at |-> at, val |-> val]

\* self.transactions.copy(): a new list of the same dicts.
Copy(txs) == [i \in 1..Len(txs) |-> Entry(i, txs[i])]

\* filter_transactions that compares the category as it is written.
filter_transactions_case(txs, category, start_date, end_date, transaction_type) ==
    LET in_category(e) == e.val.category = category[1]
        in_range(e) == /\ DateLeq(start_date[1], e.val.date)
                       /\ DateLeq(e.val.date, end_date[1])
        of_type(e) == e.val.type = Lower(transaction_type[1])
        by_category == IF Truthy(category)
                       THEN SelectSeq(Copy(txs), in_category)
                       ELSE Copy(txs)
        by_date == IF start_date # None /\ end_date # None
                   THEN SelectSeq(by_category, in_range)
                   ELSE by_category
    IN IF Truthy(transaction_type) THEN SelectSeq(by_date, of_type)
       ELSE by_date

\* filter_transactions that takes the end of the range as exclusive.
filter_transactions_open_end(txs, category, start_date, end_date, transaction_type) ==
    LET in_category(e) == Lower(e.val.category) = Lower(category[1])
        in_range(e) == /\ DateLeq(start_date[1], e.val.date)
                       /\ DateLess(e.val.date, end_date[1])
        of_type(e) == e.val.type = Lower(transaction_type[1])
        by_category == IF Truthy(category)
                       THEN SelectSeq(Copy(txs), in_category)
                       ELSE Copy(txs)
        by_date == IF start_date # None /\ end_date # None
                   THEN SelectSeq(by_category, in_range)
                   ELSE by_category
    IN IF Truthy(transaction_type) THEN SelectSeq(by_date, of_type)
       ELSE by_date

filter_transactions(txs, category, start_date, end_date, transaction_type) ==
    LET in_category(e) == Lower(e.val.category) = Lower(category[1])
        in_range(e) == /\ DateLeq(start_date[1], e.val.date)
                       /\ DateLeq(e.val.date, end_date[1])
        of_type(e) == e.val.type = Lower(transaction_type[1])
        by_category == IF Truthy(category)
                       THEN SelectSeq(Copy(txs), in_category)
                       ELSE Copy(txs)
        by_date == IF start_date # None /\ end_date # None
                   THEN SelectSeq(by_category, in_range)
                   ELSE by_category
    IN IF Truthy(transaction_type) THEN SelectSeq(by_date, of_type)
       ELSE by_date

\* What a returned list shows after the store has changed. An edit writes
\* into the dict at its place; list.sort after an append moves the dicts
\* behind the new one a place up; list.pop drops one dict from the store
\* and moves the dicts behind it a place down; a new manager shares no dict
\* with the list.
AfterEdit(entries, txs) ==
    [k \in 1..Len(entries) |->
        IF entries[k].at = 0 THEN entries[k]
        ELSE Entry(entries[k].at, txs[entries[k].at])]

AfterInsert(entries, place) ==
    [k \in 1..Len(entries) |->
        IF entries[k].at >= place
        THEN Entry(entries[k].at + 1, entries[k].val)
        ELSE entries[k]]

AfterPop(entries, index) ==
    [k \in 1..Len(entries) |->
        IF entries[k].at = index + 1 THEN Entry(0, entries[k].val)
        ELSE IF entries[k].at > index + 1
        THEN Entry(entries[k].at - 1, entries[k].val)
        ELSE entries[k]]

Detached(entries) ==
    [k \in 1..Len(entries) |-> Entry(0, entries[k].val)]

\* Where the stable sort puts the dict appended to old: behind every dict
\* that it does not precede.
PlaceOfNew(old, new) ==
    CHOOSE p \in 1..Len(new) :
        /\ \A k \in 1..(p - 1) : new[k] = old[k]
        /\ \A k \in p..Len(old) : new[k + 1] = old[k]

\* ------------------------------------------------------ budgets and reports

\* sum(t['amount'] for t in s): added up in list order, starting from 0.
RECURSIVE SumAmounts(_)
SumAmounts(s) ==
    IF s = <<>> THEN Num(0)
    ELSE Plus(SumAmounts(SubSeq(s, 1, Len(s) - 1)), s[Len(s)].amount)

set_budget(bud, category, amount) ==
    IF LeZero(amount)
    THEN [ok |-> FALSE, msg |-> "orcamento_invalido", budgets |-> bud]
    ELSE [ok |-> TRUE, msg |-> "",
          budgets |-> [k \in DOMAIN bud \cup {category} |->
                          IF k = category THEN amount ELSE bud[k]]]

\* _check_budget_exceeded comparing categories the way filter_transactions
\* does, without regard to case.
check_budget_exceeded_nocase(txs, bud) ==
    LET spent(category) ==
            LET keep(t) == Lower(t.category) = Lower(category) /\ t.type = despesa
            IN SumAmounts(SelectSeq(txs, keep))
    IN [category \in {c \in DOMAIN bud : Greater(spent(c), bud[c])} |->
           [gasto |-> spent(category),
            orcamento |-> bud[category],
            excedido |-> Minus(spent(category), bud[category])]]

\* _check_budget_exceeded: the dict of the budgeted categories whose spend is
\* over the limit.
check_budget_exceeded(txs, bud) ==
    LET spent(category) ==
            LET keep(t) == t.category = category /\ t.type = despesa
            IN SumAmounts(SelectSeq(txs, keep))
    IN [category \in {c \in DOMAIN bud : Greater(spent(c), bud[c])} |->
           [gasto |-> spent(category),
            orcamento |-> bud[category],
            excedido |-> Minus(spent(category), bud[category])]]

\* calculate_balance whose income total forgets the test on the kind.
calculate_balance_all_income(txs, bud) ==
    LET is_expense(t) == t.type = despesa
        total_income == SumAmounts(txs)
        total_expenses == SumAmounts(SelectSeq(txs, is_expense))
    IN [receita_total |-> total_income,
        despesa_total |-> total_expenses,
        saldo |-> Minus(total_income, total_expenses),
        categorias_com_problema |-> check_budget_exceeded(txs, bud)]

calculate_balance(txs, bud) ==
    LET is_income(t) == t.type = receita
        is_expense(t) == t.type = despesa
        total_income == SumAmounts(SelectSeq(txs, is_income))
        total_expenses == SumAmounts(SelectSeq(txs, is_expense))
    IN [receita_total |-> total_income,
        despesa_total |-> total_expenses,
        saldo |-> Minus(total_income, total_expenses),
        categorias_com_problema |-> check_budget_exceeded(txs, bud)]

\* The dict monthly_report returns when the month holds transactions.
Report(year, month, total_income, total_expenses, budget_status) ==
    [year |-> year,
     month |-> month,
     total_income |-> total_income,
     total_expenses |-> total_expenses,
     balance |-> Minus(total_income, total_expenses),
     budget_status |-> budget_status]

\* monthly_report that adds up the whole ledger once the month holds a
\* transaction.
monthly_report_whole_ledger(txs, bud, year, month) ==
    LET in_month(t) == t.date.year = year /\ t.date.month = month
        is_income(t) == t.type = receita
        is_expense(t) == t.type = despesa
    IN IF SelectSeq(txs, in_month) = <<>> THEN EmptyDict
       ELSE Report(year, month,
                   SumAmounts(SelectSeq(txs, is_income)),
                   SumAmounts(SelectSeq(txs, is_expense)),
                   check_budget_exceeded(txs, bud))

\* monthly_report: the totals are taken over the month's transactions, the
\* budget status over all of self.transactions.
monthly_report(txs, bud, year, month) ==
    LET in_month(t) == t.date.year = year /\ t.date.month = month
        is_income(t) == t.type = receita
        is_expense(t) == t.type = despesa
        month_txs == SelectSeq(txs, in_month)
    IN IF month_txs = <<>> THEN EmptyDict
       ELSE Report(year, month,
                   SumAmounts(SelectSeq(month_txs, is_income)),
                   SumAmounts(SelectSeq(month_txs, is_expense)),
                   check_budget_exceeded(txs, bud))

\* ------------------------------------------------------------------- goals

\* datetime.now(): the day, and whether the time of day is past 00:00:00.
Now(date, late) == [date |-> date, late |-> late]

\* target_date < datetime.now(), target_date being a day at 00:00:00
BeforeNow(target_date, now) ==
    DateLess(target_date, now.date) \/ (target_date = now.date /\ now.late)

\* What a goal method hands back; raised marks an exception that leaves the
\* method.
GoalRet(ok, raised, msg, gls) ==
    [ok |-> ok, raised |-> raised, msg |-> msg, goals |-> gls]

\* dict[key] = value
SetItem(d, key, value) ==
    [k \in DOMAIN d \cup {key} |-> IF k = key THEN value ELSE d[k]]

\* set_financial_goal that stores the goal before it looks at the date.
set_financial_goal_store_first(gls, goal_name, target_amount, target_date, now) ==
    IF target_date.tag # "str"
    THEN GoalRet(FALSE, TRUE, "TypeError", gls)
    ELSE IF strptime(target_date) = None
    THEN GoalRet(FALSE, FALSE, "data_invalida", gls)
    ELSE IF ~IsNumber(target_amount)
    THEN GoalRet(FALSE, FALSE, "data_invalida", gls)
    ELSE GoalRet(~BeforeNow(strptime(target_date)[1], now), FALSE,
                 IF BeforeNow(strptime(target_date)[1], now)
                 THEN "data_passada" ELSE "",
                 SetItem(gls, goal_name,
                         [target_amount |-> target_amount,
                      target_date |-> strptime(target_date)[1],
                      saved_amount |-> Num(0),
                      created_at |-> now]))

\* strptime raises TypeError for a date that is no string, and that leaves
\* the method; its ValueError, and the ValueError of float(text), are caught
\* and answered with the message about the date format.
set_financial_goal(gls, goal_name, target_amount, target_date, now) ==
    IF target_date.tag # "str"
    THEN GoalRet(FALSE, TRUE, "TypeError", gls)
    ELSE IF strptime(target_date) = None
    THEN GoalRet(FALSE, FALSE, "data_invalida", gls)
    ELSE IF BeforeNow(strptime(target_date)[1], now)
    THEN GoalRet(FALSE, FALSE, "data_passada", gls)
    ELSE IF ~IsNumber(target_amount)
    THEN GoalRet(FALSE, FALSE, "data_invalida", gls)
    ELSE GoalRet(TRUE, FALSE, "",
                 SetItem(gls, goal_name,
                         [target_amount |-> target_amount,
                      target_date |-> strptime(target_date)[1],
                      saved_amount |-> Num(0),
                      created_at |-> now]))

\* saved_amount / target_amount * 100, kept as the fraction it is.
Percent(goal) ==
    [times100 |-> goal.saved_amount.v * 100, over |-> goal.target_amount.v]

\* view_goals: the progress it computes for each goal; the division raises
\* ZeroDivisionError for a target amount of 0, and nothing catches it.
view_goals(gls) ==
    IF \E n \in DOMAIN gls : gls[n].target_amount.v = 0
    THEN [raised |-> TRUE, msg |-> "ZeroDivisionError"]
    ELSE [raised |-> FALSE, progress |-> [n \in DOMAIN gls |-> Percent(gls[n])]]

\* add_to_goal that takes any amount.
add_to_goal_any_amount(gls, goal_name, amount) ==
    IF goal_name \notin DOMAIN gls
    THEN GoalRet(FALSE, FALSE, "meta_nao_encontrada", gls)
    ELSE GoalRet(TRUE, FALSE, "",
                 [gls EXCEPT ![goal_name].saved_amount = Plus(@, amount)])

add_to_goal(gls, goal_name, amount) ==
    IF goal_name \notin DOMAIN gls
    THEN GoalRet(FALSE, FALSE, "meta_nao_encontrada", gls)
    ELSE IF LeZero(amount)
    THEN GoalRet(FALSE, FALSE, "valor_invalido", gls)
    ELSE GoalRet(TRUE, FALSE, "",
                 [gls EXCEPT ![goal_name].saved_amount = Plus(@, amount)])

\* ---------------------------------------------------- validation of input

\* A float is kept as the decimal it is written as: m / 10^e.
Dec(m, e) == [m |-> m, e |-> e]

RECURSIVE Pow10(_)
Pow10(n) == IF n = 0 THEN 1 ELSE 10 * Pow10(n - 1)

\* a < b and a == b on such floats
DecLess(a, b) == a.m * Pow10(b.e) < b.m * Pow10(a.e)
DecEq(a, b) == a.m * Pow10(b.e) = b.m * Pow10(a.e)

DigitChars == <<"0", "1", "2", "3", "4", "5", "6", "7", "8", "9">>

\* \d
IsDigit(c) == \E i \in 1..10 : DigitChars[i] = c

\* int(digits) for a run of digits; 0 for the empty run.
RECURSIVE DigitsToInt(_)
DigitsToInt(ds) ==
    IF ds = <<>> THEN 0
    ELSE 10 * DigitsToInt(SubSeq(ds, 1, Len(ds) - 1))
             + (CHOOSE i \in 1..10 : DigitChars[i] = ds[Len(ds)]) - 1

\* str(n) for an int n >= 0
RECURSIVE NatStr(_)
NatStr(n) ==
    IF n < 10 THEN <<DigitChars[n + 1]>>
    ELSE Append(NatStr(n \div 10), DigitChars[(n % 10) + 1])

\* The digits of n, filled up with zeros in front to the given width.
RECURSIVE ZeroFill(_, _)
ZeroFill(ds, width) ==
    IF Len(ds) >= width THEN ds ELSE ZeroFill(<<"0">> \o ds, width)

\* str(x) for an int (e = 0) and for a float that Python writes in
\* positional notation, with at least one digit behind the point.
NumberStr(x, is_float) ==
    LET sign == IF x.m < 0 THEN <<"-">> ELSE <<>>
        abs == IF x.m < 0 THEN -x.m ELSE x.m
        whole == NatStr(abs \div Pow10(x.e))
        part == IF x.e = 0 THEN <<"0">>
                ELSE ZeroFill(NatStr(abs % Pow10(x.e)), x.e)
    IN IF is_float THEN sign \o whole \o <<".">> \o part
       ELSE sign \o whole

\* s.count(c)
Count(s, c) == LET is_c(x) == x = c IN Len(SelectSeq(s, is_c))

\* s.replace(c, '')
Drop(s, c) == LET not_c(x) == x # c IN SelectSeq(s, not_c)

\* s.replace(c, d)
Replace(s, c, d) == [i \in 1..Len(s) |-> IF s[i] = c THEN d ELSE s[i]]

\* re.sub(r'[^\d,-]', '', s): digits, commas and hyphens stay, every other
\* character goes, the point among them.
CleanAmount(s) ==
    LET stays(c) == IsDigit(c) \/ c = "," \/ c = "-" IN SelectSeq(s, stays)

\* float(text) for a text of digits, points and hyphens: <<>> for
\* ValueError, else <<value>>. The text is an optional sign, then digits
\* with at most one point among them, and at least one digit.
ParseFloat(text) ==
    LET negative == text # <<>> /\ text[1] = "-"
        body == IF negative THEN Tail(text) ELSE text
        digits == SelectSeq(body, IsDigit)
        point == CHOOSE i \in 1..(Len(body) + 1) :
                    i = Len(body) + 1 \/ body[i] = "."
        n == DigitsToInt(digits)
    IN IF /\ digits # <<>>
          /\ \A i \in 1..Len(body) : IsDigit(body[i]) \/ body[i] = "."
          /\ Count(body, ".") <= 1
       THEN Some(Dec(IF negative THEN -n ELSE n,
                     IF point > Len(body) THEN 0 ELSE Len(body) - point))
       ELSE None

\* The pair a validator returns: (True, value) or (False, message).
Valid(value) == [ok |-> TRUE, value |-> value]
Invalid(msg) == [ok |-> FALSE, msg |-> msg]

\* An amount handed to validate_amount: a text, an int or a float.
Text(s) == [tag |-> "str", text |-> s]
IntNumber(n) == [tag |-> "int", value |-> Dec(n, 0)]
FloatNumber(m, e) == [tag |-> "float", value |-> Dec(m, e)]

\* validate_amount that leaves out the check against min_value.
validate_amount_no_min(amount, allow_negative, max_value, min_value, allow_zero) ==
    LET amount_str == IF amount.tag = "str" THEN Strip(amount.text)
                      ELSE NumberStr(amount.value, amount.tag = "float")
        amount_cleaned == CleanAmount(amount_str)
        has(c) == Count(amount_cleaned, c) > 0
        unified == IF has(",") /\ has(".")
                   THEN Replace(Drop(amount_cleaned, "."), ",", ".")
                   ELSE IF has(",") THEN Replace(amount_cleaned, ",", ".")
                   ELSE amount_cleaned
        parsed == ParseFloat(unified)
    IN IF Count(amount_cleaned, ".") > 1 \/ Count(amount_cleaned, ",") > 1
       THEN Invalid("formato_invalido")
       ELSE IF parsed = None THEN Invalid("valor_invalido")
       ELSE IF ~allow_negative /\ DecLess(parsed[1], Dec(0, 0))
       THEN Invalid("negativo")
       ELSE IF ~allow_zero /\ DecEq(parsed[1], Dec(0, 0))
       THEN Invalid("zero")
       ELSE IF max_value # None /\ DecLess(max_value[1], parsed[1])
       THEN Invalid("acima_do_maximo")
       ELSE Valid(parsed[1])

validate_amount(amount, allow_negative, max_value, min_value, allow_zero) ==
    LET amount_str == IF amount.tag = "str" THEN Strip(amount.text)
                      ELSE NumberStr(amount.value, amount.tag = "float")
        amount_cleaned == CleanAmount(amount_str)
        has(c) == Count(amount_cleaned, c) > 0
        unified == IF has(",") /\ has(".")
                   THEN Replace(Drop(amount_cleaned, "."), ",", ".")
                   ELSE IF has(",") THEN Replace(amount_cleaned, ",", ".")
                   ELSE amount_cleaned
        parsed == ParseFloat(unified)
    IN IF Count(amount_cleaned, ".") > 1 \/ Count(amount_cleaned, ",") > 1
       THEN Invalid("formato_invalido")
       ELSE IF parsed = None THEN Invalid("valor_invalido")
       ELSE IF ~allow_negative /\ DecLess(parsed[1], Dec(0, 0))
       THEN Invalid("negativo")
       ELSE IF ~allow_zero /\ DecEq(parsed[1], Dec(0, 0))
       THEN Invalid("zero")
       ELSE IF max_value # None /\ DecLess(max_value[1], parsed[1])
       THEN Invalid("acima_do_maximo")
       ELSE IF min_value # None /\ DecLess(parsed[1], min_value[1])
       THEN Invalid("abaixo_do_minimo")
       ELSE Valid(parsed[1])

\* validate_date without the check against the clock.
validate_date_any_time(date_str, allow_future, now) ==
    LET date_obj == strptime(date_str)
    IN IF date_obj = None THEN Invalid("formato_de_data_invalido")
       ELSE Valid(date_obj[1])

\* validate_date with the default date_format; now is what datetime.now()
\* returns during the call. date_obj is a day at 00:00:00, so it is greater
\* than now when its day comes after now's day.
validate_date(date_str, allow_future, now) ==
    LET date_obj == strptime(date_str)
    IN IF date_obj = None THEN Invalid("formato_de_data_invalido")
       ELSE IF ~allow_future /\ DateLess(now.date, date_obj[1])
       THEN Invalid("data_futura")
       ELSE Valid(date_obj[1])

\* ------------------------------------------------------------- persistence

\* File names are kept as the pieces they are concatenated from.
DATA_FILE == <<"financas", ".dat">>
BACKUP_FILE == <<"financas", ".bak">>

\* filename + '.bak'
BakName(filename) == Append(filename, ".bak")

\* os.path.exists
Exists(files, name) == name \in DOMAIN files

\* os.remove
Remove(files, name) == [n \in DOMAIN files \ {name} |-> files[n]]

\* open(name, 'wb') followed by a complete write.
Write(files, name, content) ==
    [n \in DOMAIN files \cup {name} |-> IF n = name THEN content ELSE files[n]]

\* os.rename(old, new) with old present.
Rename(files, old, new) == Write(Remove(files, old), new, files[old])

\* What a file holds: a pickled dict, a pickled object that is no dict, or
\* bytes pickle.load cannot read.
DictFile(data) == [kind |-> "dict", data |-> data]
ObjectFile == [kind |-> "object"]
GarbageFile == [kind |-> "garbage"]

\* hashlib.md5(pickle.dumps(x)).hexdigest()
Digest(x) == [md5 |-> x]

\* {k: v for k, v in data.items() if k != 'checksum'}
WithoutChecksum(data) == [k \in DOMAIN data \ {"checksum"} |-> data[k]]

\* dict.get(key, default)
Get(data, key, default) == IF key \in DOMAIN data THEN data[key] ELSE default

\* The dict save_to_file pickles.
Snapshot(mgr) ==
    [transactions |-> mgr.transactions,
     budgets |-> mgr.budgets,
     goals |-> mgr.goals,
     checksum |-> Digest([transactions |-> mgr.transactions,
                          budgets |-> mgr.budgets]),
     version |-> "1.0"]

\* The steps of save_to_file at which the operating system or pickle can raise.
NoFault == "none"
SaveFaults == {"dumps", "remove", "rename", "open", "write"}

\* The try block of save_to_file that overwrites the file in place, keeping no
\* backup.
SaveBody_no_backup(mgr, files, filename, fault) ==
    IF fault = "dumps" THEN [ok |-> FALSE, fs |-> files]
    ELSE IF fault = "open" THEN [ok |-> FALSE, fs |-> files]
    ELSE IF fault = "write"
    THEN [ok |-> FALSE, fs |-> Write(files, filename, GarbageFile)]
    ELSE [ok |-> TRUE, fs |-> Write(files, filename, DictFile(Snapshot(mgr)))]

\* The try block of save_to_file; the step named by fault, if it is reached,
\* raises, and the except branch answers False. A write that raises leaves
\* the opened file behind with an incomplete pickle.
SaveBody(mgr, files, filename, fault) ==
    LET backup_name == BakName(filename)
        dump(fl) ==
            IF fault = "open" THEN [ok |-> FALSE, fs |-> fl]
            ELSE IF fault = "write"
            THEN [ok |-> FALSE, fs |-> Write(fl, filename, GarbageFile)]
            ELSE [ok |-> TRUE,
                  fs |-> Write(fl, filename, DictFile(Snapshot(mgr)))]
    IN IF fault = "dumps" THEN [ok |-> FALSE, fs |-> files]
       ELSE IF ~Exists(files, filename) THEN dump(files)
       ELSE IF Exists(files, backup_name) /\ fault = "remove"
       THEN [ok |-> FALSE, fs |-> files]
       ELSE
         LET cleared == IF Exists(files, backup_name)
                        THEN Remove(files, backup_name)
                        ELSE files
         IN IF fault = "rename" THEN [ok |-> FALSE, fs |-> cleared]
            ELSE dump(Rename(cleared, filename, backup_name))

\* save_to_file when no step raises.
save_to_file(mgr, files, filename) == SaveBody(mgr, files, filename, NoFault)

\* isinstance(transaction['date'], str)
IsDateString(date) == "tag" \in DOMAIN date

\* What load_from_file hands back: a manager, or the exception that left it.
Loaded(txs, bud, gls) ==
    [raised |-> FALSE, msg |-> "", transactions |-> txs, budgets |-> bud,
     goals |-> gls]
Failed(msg) ==
    [raised |-> FALSE, msg |-> msg, transactions |-> NewManager.transactions,
     budgets |-> NewManager.budgets, goals |-> NewManager.goals]
Raised(msg) ==
    [raised |-> TRUE, msg |-> msg, transactions |-> NewManager.transactions,
     budgets |-> NewManager.budgets, goals |-> NewManager.goals]

\* The body of the try block of load_from_file.
LoadBody(files, filename) ==
    IF ~Exists(files, filename) THEN Loaded(<<>>, EmptyDict, EmptyDict)
    ELSE IF files[filename].kind = "garbage" THEN Raised("UnpicklingError")
    ELSE IF files[filename].kind # "dict" THEN Raised("formato_invalido")
    ELSE
      LET data == files[filename].data
      IN IF "checksum" \in DOMAIN data
            /\ Digest(WithoutChecksum(data)) # data.checksum
         THEN Raised("checksum_invalido")
         ELSE
           LET txs == Get(data, "transactions", <<>>)
           IN IF \E i \in 1..Len(txs) :
                     IsDateString(txs[i].date) /\ strptime(txs[i].date) = None
              THEN Raised("ValueError")
              ELSE Loaded([i \in 1..Len(txs) |->
                              IF IsDateString(txs[i].date)
                              THEN [txs[i] EXCEPT !.date = strptime(txs[i].date)[1]]
                              ELSE txs[i]],
                          Get(data, "budgets", EmptyDict),
                          Get(data, "goals", EmptyDict))

\* load_from_file that skips the comparison of the checksums.
load_from_file_unchecked(files, filename) ==
    IF ~Exists(files, filename) THEN Loaded(<<>>, EmptyDict, EmptyDict)
    ELSE IF files[filename].kind # "dict" THEN Failed("formato_invalido")
    ELSE
      LET data == files[filename].data
          txs == Get(data, "transactions", <<>>)
      IN IF \E i \in 1..Len(txs) :
                IsDateString(txs[i].date) /\ strptime(txs[i].date) = None
         THEN Failed("ValueError")
         ELSE Loaded([i \in 1..Len(txs) |->
                         IF IsDateString(txs[i].date)
                         THEN [txs[i] EXCEPT !.date = strptime(txs[i].date)[1]]
                         ELSE txs[i]],
                     Get(data, "budgets", EmptyDict),
                     Get(data, "goals", EmptyDict))

\* load_from_file: whatever the body raises is caught, reported, and answered
\* with a new manager.
load_from_file(files, filename) ==
    LET r == LoadBody(files, filename)
    IN IF r.raised THEN Failed(r.msg) ELSE r

\* FinancialApp.initialize_manager: the data file is moved to the backup name
\* and the data file name is loaded afterwards.
initialize_manager(files) ==
    LET moved == IF Exists(files, DATA_FILE)
                 THEN Rename(IF Exists(files, BACKUP_FILE)
                             THEN Remove(files, BACKUP_FILE)
                             ELSE files,
                             DATA_FILE, BACKUP_FILE)
                 ELSE files
    IN [fs |-> moved, manager |-> load_from_file(moved, DATA_FILE)]

\* DATA_FILE + ".tmp"
TMP_FILE == Append(DATA_FILE, ".tmp")

\* FinancialApp.restore_backup. os.rename raises when its source is missing
\* and replaces its target otherwise; the except branch puts the .tmp file
\* back when there is one. load is the message of a failed load_from_file.
restore_backup(mgr, files, confirm) ==
    IF ~Exists(files, BACKUP_FILE)
    THEN [fs |-> files, manager |-> mgr, msg |-> "nenhum_backup", load |-> ""]
    ELSE IF ~confirm
    THEN [fs |-> files, manager |-> mgr, msg |-> "cancelado", load |-> ""]
    ELSE IF ~Exists(files, DATA_FILE)
    THEN [fs |-> IF Exists(files, TMP_FILE)
                 THEN Rename(files, TMP_FILE, DATA_FILE)
                 ELSE files,
          manager |-> mgr, msg |-> "falha", load |-> ""]
    ELSE
      LET moved == Rename(Rename(files, DATA_FILE, TMP_FILE),
                          BACKUP_FILE, DATA_FILE)
          m == load_from_file(moved, DATA_FILE)
      IN [fs |-> moved,
          manager |-> [transactions |-> m.transactions, budgets |-> m.budgets,
                       goals |-> m.goals],
          msg |-> "restaurado", load |-> m.msg]

\* ------------------------------------------------------------------ inputs

DESPESA == <<"D", "E", "S", "P", "E", "S", "A">>

\* Arguments of add_transaction that pass every check.
GoodAddArgs ==
    [description : {<<" ", "a">>, <<"b">>},
     amount : {Num(1), Num(2)},
     transaction_type : {receita, DESPESA},
     category : {<<" ", "c", " ">>},
     date : {DateStr(5, 1, 2024)}]

BaseAddArgs ==
    [description |-> <<"b">>, amount |-> Num(1), transaction_type |-> receita,
     category |-> <<"c">>, date |-> DateObj(2024, 1, 5)]

\* Arguments of add_transaction with one or two fields that fail a check.
BadAddArgs ==
    {[BaseAddArgs EXCEPT !.transaction_type = <<"x">>],
     [BaseAddArgs EXCEPT !.amount = Num(0)],
     [BaseAddArgs EXCEPT !.amount = Num(-1)],
     [BaseAddArgs EXCEPT !.amount = NotNum],
     [BaseAddArgs EXCEPT !.date = DateStr(31, 2, 2023)],
     [BaseAddArgs EXCEPT !.date = DateStrMalformed],
     [BaseAddArgs EXCEPT !.date = DateOther],
     [BaseAddArgs EXCEPT !.description = <<>>],
     [BaseAddArgs EXCEPT !.description = <<" ", " ">>],
     [BaseAddArgs EXCEPT !.category = <<" ">>],
     [BaseAddArgs EXCEPT !.amount = Num(0), !.description = <<" ">>]}

AddArgs == GoodAddArgs \cup {BaseAddArgs} \cup BadAddArgs

\* Indexes handed to edit_transaction and remove_transaction.
Indexes == -1 .. MaxTx

EditArgs ==
    [index : Indexes,
     description : {None, Some(<<" ">>), Some(<<"b", " ">>)},
     amount : {None, Some(Num(-5)), Some(Num(2))},
     transaction_type : {None, Some(<<"x">>), Some(DESPESA)}]

\* Every combination of arguments the checks of edit_transaction tell apart.
AllEditArgs ==
    [index : Indexes,
     description : {None, Some(<<>>), Some(<<" ">>), Some(<<"b", " ">>)},
     amount : {None, Some(Num(0)), Some(Num(-5)), Some(NotNum), Some(Num(2))},
     transaction_type : {None, Some(<<"x">>), Some(DESPESA)}]

\* Every combination of field values the checks of add_transaction tell apart.
AllAddArgs ==
    [description : {<<" ", "a">>, <<>>, <<" ", " ">>},
     amount : {Num(-1), Num(0), Num(2), NotNum},
     transaction_type : {DESPESA, <<"x">>},
     category : {<<" ", "c", " ">>, <<" ">>},
     date : {DateStr(29, 2, 2024), DateStr(31, 2, 2023), DateStrMalformed,
             DateOther}]

\* The inputs of the runs that vary the dates and little else.
SortAddArgs ==
    [description : {<<"b">>},
     amount : {Num(1)},
     transaction_type : {receita, DESPESA},
     category : {<<"c">>},
     date : {DateObj(2024, 2, 1), DateStr(5, 1, 2024), DateObj(2023, 12, 31),
             DateStr(31, 2, 2023)}]

SortEditArgs ==
    [index : Indexes,
     description : {None},
     amount : {None, Some(Num(0)), Some(Num(2))},
     transaction_type : {None, Some(DESPESA)}]

\* The inputs of the runs that vary categories, kinds and amounts.
BudgetAddArgs ==
    [description : {<<"b">>},
     amount : {Num(1), Num(2)},
     transaction_type : {receita, DESPESA},
     category : {<<"c">>, <<"C", " ">>},
     date : {DateObj(2024, 1, 5)}]
        \cup {[BaseAddArgs EXCEPT !.category = <<" ">>]}

SetBudgetArgs ==
    [category : {<<"c">>, <<"C">>}, amount : {Num(0), Num(1), Num(3)}]

\* The inputs of the runs that save and load.
PersistAddArgs == {[BaseAddArgs EXCEPT !.transaction_type = DESPESA]}

PersistBudgetArgs == {[category |-> <<"c">>, amount |-> Num(1)]}

\* A dict of the older layout: no checksum, the date kept as text.
LegacyData(date) ==
    [transactions |-> <<[description |-> <<"a">>, amount |-> Num(2), type |-> receita,
                         category |-> <<"c">>, date |-> date]>>,
     budgets |-> EmptyDict]

\* What another program, or a damaged disk, can leave in the data file.
ForeignContents ==
    {GarbageFile, ObjectFile, DictFile(LegacyData(DateStr(5, 1, 2024))),
     DictFile(LegacyData(DateStr(31, 2, 2023)))}

\* The inputs of the runs on goals: the clock reads the same day, at
\* midnight sharp or later; target dates lie before, on and after that day.
Today == DateTime(2024, 6, 15)
Nows == {Now(Today, FALSE), Now(Today, TRUE)}

GoalNames == {<<"g">>, <<"h">>}

SetGoalArgs ==
    [goal_name : GoalNames,
     target_amount : {Num(-5), Num(0), Num(10), NotNum},
     target_date : {DateStr(14, 6, 2024), DateStr(15, 6, 2024),
                    DateStr(16, 6, 2024), DateStr(31, 6, 2024),
                    DateStrMalformed}]

AddToGoalArgs ==
    [goal_name : GoalNames, amount : {Num(-1), Num(0), Num(1), Num(2)}]

\* The inputs of the runs that filter: two kinds, two categories and two
\* days in the store; filters by a category in the other case, by a day,
\* by a range that holds no day, and by kind.
FilterAddArgs ==
    {[BaseAddArgs EXCEPT !.date = DateStr(5, 1, 2024)],
     [BaseAddArgs EXCEPT !.transaction_type = DESPESA,
                         !.date = DateStr(6, 1, 2024)],
     [BaseAddArgs EXCEPT !.category = <<"x">>, !.date = DateStr(6, 1, 2024)]}

FilterEditArgs ==
    [index : {0}, description : {Some(<<"a">>)}, amount : {None},
     transaction_type : {None}]

FilterArgs ==
    {a \in [category : {None, Some(<<"C">>), Some(<<"e">>)},
            start_date : {None, Some(DateTime(2024, 1, 5)),
                          Some(DateTime(2024, 1, 6))},
            end_date : {None, Some(DateTime(2024, 1, 5))},
            transaction_type : {None, Some(receita), Some(despesa)}] :
        (a.start_date = None) <=> (a.end_date = None)}

\* The inputs of the runs that report by month: transactions in two months
\* of one year and in the same month of another year, and a budget that one
\* month's expenses stay within while two months' expenses pass it.
ReportAddArgs ==
    [description : {<<"b">>},
     amount : {Num(1)},
     transaction_type : {receita, DESPESA},
     category : {<<"c">>},
     date : {DateStr(5, 1, 2024), DateStr(5, 2, 2024), DateStr(5, 1, 2023)}]

ReportBudgetArgs == {[category |-> <<"c">>, amount |-> Num(1)]}

ReportMonths == {<<2024, 1>>, <<2024, 2>>, <<2023, 2>>}

\* The inputs of the runs that validate amounts: what the user types at the
\* prompt, a character at a time, the keyword arguments of the call, and
\* numbers handed over as int and float.
\* Texts handed to validate_date: days around the clock's day and at the
\* end of a month, in February, June and a month that does not exist, and
\* a text that has not the shape of a date.
DateTexts ==
    {DateStr(d, m, y) : d \in {14, 15, 16, 29, 30, 31}, m \in {2, 6, 13},
                        y \in {2023, 2024, 2025}}
        \cup {DateStrMalformed}

AmountChars == {"1", "2", ".", ",", "-", "x"}

DefaultAmountOptions ==
    [allow_negative |-> FALSE, max_value |-> None, min_value |-> None,
     allow_zero |-> TRUE]

AmountOptions ==
    {DefaultAmountOptions,
     [allow_negative |-> TRUE, max_value |-> None, min_value |-> None,
      allow_zero |-> FALSE],
     [allow_negative |-> TRUE, max_value |-> Some(Dec(12, 0)),
      min_value |-> Some(Dec(15, 1)), allow_zero |-> TRUE]}

AmountNumbers ==
    {IntNumber(5), IntNumber(0), FloatNumber(15, 1), FloatNumber(-25, 1),
     FloatNumber(2, 0)}

\* ----------------------------------------------------------------- actions

AddTransaction(a) ==
    LET r == add_transaction(transactions, a.description, a.amount,
                             a.transaction_type, a.category, a.date)
    IN /\ Len(r.transactions) <= MaxTx
       /\ transactions' = r.transactions
       /\ call' = [op |-> "add_transaction", ok |-> r.ok, msg |-> r.msg]
       /\ filtered' = IF r.ok
                      THEN AfterInsert(filtered,
                                       PlaceOfNew(transactions, r.transactions))
                      ELSE filtered
       /\ UNCHANGED <<budgets, goals, fs, loaded>>

EditTransaction(a) ==
    LET r == edit_transaction(transactions, a.index, a.description, a.amount,
                              a.transaction_type)
    IN /\ transactions' = r.transactions
       /\ call' = [op |-> "edit_transaction", ok |-> r.ok, msg |-> r.msg]
       /\ filtered' = AfterEdit(filtered, r.transactions)
       /\ UNCHANGED <<budgets, goals, fs, loaded>>

RemoveTransaction(index) ==
    LET r == remove_transaction(transactions, index)
    IN /\ transactions' = r.transactions
       /\ call' = [op |-> "remove_transaction", ok |-> r.ok, msg |-> r.msg]
       /\ filtered' = IF r.ok THEN AfterPop(filtered, index) ELSE filtered
       /\ UNCHANGED <<budgets, goals, fs, loaded>>

SetBudget(a) ==
    LET r == set_budget(budgets, a.category, a.amount)
    IN /\ budgets' = r.budgets
       /\ call' = [op |-> "set_budget", ok |-> r.ok, msg |-> r.msg]
       /\ UNCHANGED <<transactions, goals, fs, loaded, filtered>>

SetFinancialGoal(a, now) ==
    LET r == set_financial_goal(goals, a.goal_name, a.target_amount,
                                a.target_date, now)
    IN /\ goals' = r.goals
       /\ call' = [op |-> "set_financial_goal", ok |-> r.ok, msg |-> r.msg,
                   goal_name |-> a.goal_name]
       /\ UNCHANGED <<transactions, budgets, fs, loaded, filtered>>

AddToGoal(a) ==
    LET r == add_to_goal(goals, a.goal_name, a.amount)
    IN /\ \A n \in DOMAIN r.goals : r.goals[n].saved_amount.v <= MaxSaved
       /\ goals' = r.goals
       /\ call' = [op |-> "add_to_goal", ok |-> r.ok, msg |-> r.msg,
                   goal_name |-> a.goal_name, amount |-> a.amount]
       /\ UNCHANGED <<transactions, budgets, fs, loaded, filtered>>

ViewGoals ==
    /\ call' = [op |-> "view_goals", ret |-> view_goals(goals)]
    /\ UNCHANGED <<transactions, budgets, goals, fs, loaded, filtered>>

\* The run follows one returned list: the call is made while none is held.
FilterTransactions(a) ==
    /\ filtered = <<>>
    /\ filtered' = filter_transactions(transactions, a.category, a.start_date,
                                       a.end_date, a.transaction_type)
    /\ call' = [op |-> "filter_transactions", args |-> a]
    /\ UNCHANGED <<transactions, budgets, goals, fs, loaded>>

MonthlyReport(year, month) ==
    /\ call' = [op |-> "monthly_report", year |-> year, month |-> month,
                ret |-> monthly_report(transactions, budgets, year, month)]
    /\ UNCHANGED <<transactions, budgets, goals, fs, loaded, filtered>>

\* What has been typed at the prompt so far.
Typed == IF call.op = "input" THEN call.text ELSE <<>>

\* input(prompt): the user types one more character.
TypeChar(c) ==
    /\ Len(Typed) < MaxText
    /\ call' = [op |-> "input", text |-> Append(Typed, c)]
    /\ UNCHANGED <<transactions, budgets, goals, fs, loaded, filtered>>

\* The typed text is handed to validate_amount.
ValidateAmount(o) ==
    /\ call' = [op |-> "validate_amount", amount |-> Text(Typed),
                options |-> o,
                ret |-> validate_amount(Text(Typed), o.allow_negative,
                                        o.max_value, o.min_value,
                                        o.allow_zero)]
    /\ UNCHANGED <<transactions, budgets, goals, fs, loaded, filtered>>

\* validate_amount is called with an int or a float.
ValidateNumber(x, o) ==
    /\ call' = [op |-> "validate_amount", amount |-> x, options |-> o,
                ret |-> validate_amount(x, o.allow_negative, o.max_value,
                                        o.min_value, o.allow_zero)]
    /\ UNCHANGED <<transactions, budgets, goals, fs, loaded, filtered>>

\* validate_date is called on a text while the clock reads now.
ValidateDate(date_str, allow_future, now) ==
    /\ call' = [op |-> "validate_date", date_str |-> date_str,
                allow_future |-> allow_future, now |-> now,
                ret |-> validate_date(date_str, allow_future, now)]
    /\ UNCHANGED <<transactions, budgets, goals, fs, loaded, filtered>>

CalculateBalance ==
    /\ call' = [op |-> "calculate_balance",
                ret |-> calculate_balance(transactions, budgets)]
    /\ UNCHANGED <<transactions, budgets, goals, fs, loaded, filtered>>

SaveToFile(filename) ==
    LET r == save_to_file(Manager, fs, filename)
    IN /\ fs' = r.fs
       /\ call' = [op |-> "save_to_file", ok |-> r.ok, file |-> filename]
       /\ UNCHANGED <<transactions, budgets, goals, loaded, filtered>>

\* save_to_file meets an error of the operating system or of pickle.
SaveToFileFailing(filename, fault) ==
    LET r == SaveBody(Manager, fs, filename, fault)
    IN /\ fs' = r.fs
       /\ call' = [op |-> "save_to_file", ok |-> r.ok, file |-> filename]
       /\ UNCHANGED <<transactions, budgets, goals, loaded, filtered>>

LoadFromFile(filename) ==
    LET r == load_from_file(fs, filename)
    IN /\ loaded' = [transactions |-> r.transactions, budgets |-> r.budgets,
                     goals |-> r.goals]
       /\ call' = [op |-> "load_from_file", file |-> filename,
                   raised |-> r.raised, msg |-> r.msg]
       /\ UNCHANGED <<transactions, budgets, goals, fs, filtered>>

\* A new session starts: FinancialApp.__init__ sets self.manager.
InitializeManager ==
    LET r == initialize_manager(fs)
    IN /\ fs' = r.fs
       /\ transactions' = r.manager.transactions
       /\ budgets' = r.manager.budgets
       /\ goals' = r.manager.goals
       /\ call' = [op |-> "initialize_manager", msg |-> r.manager.msg]
       /\ filtered' = Detached(filtered)
       /\ UNCHANGED loaded

\* The user picks "restore backup" and answers the confirmation.
RestoreBackup(confirm) ==
    LET r == restore_backup(Manager, fs, confirm)
    IN /\ fs' = r.fs
       /\ transactions' = r.manager.transactions
       /\ budgets' = r.manager.budgets
       /\ goals' = r.manager.goals
       /\ call' = [op |-> "restore_backup", confirm |-> confirm,
                   msg |-> r.msg, load |-> r.load]
       /\ filtered' = IF r.msg = "restaurado" THEN Detached(filtered)
                      ELSE filtered
       /\ UNCHANGED loaded

\* The data file is replaced from outside the program.
ForeignWrite(content) ==
    /\ fs' = Write(fs, DATA_FILE, content)
    /\ call' = [op |-> "foreign_write"]
    /\ UNCHANGED <<transactions, budgets, goals, loaded, filtered>>

\* A byte of the stored digest of the data file is flipped.
FlipChecksum ==
    /\ Exists(fs, DATA_FILE)
    /\ fs[DATA_FILE].kind = "dict"
    /\ "checksum" \in DOMAIN fs[DATA_FILE].data
    /\ DOMAIN fs[DATA_FILE].data.checksum = {"md5"}
    /\ fs' = [fs EXCEPT ![DATA_FILE].data.checksum =
                  [md5 |-> @.md5, flipped |-> TRUE]]
    /\ call' = [op |-> "flip_checksum"]
    /\ UNCHANGED <<transactions, budgets, goals, loaded, filtered>>

\* --------------------------------------------------------- the store alone

NoFiles == [f \in {} |-> 0]

Init ==
    /\ transactions = NewManager.transactions
    /\ budgets = NewManager.budgets
    /\ goals = NewManager.goals
    /\ fs = NoFiles
    /\ loaded = NewManager
    /\ filtered = <<>>
    /\ call = [op |-> "init"]

Next ==
    \/ \E a \in AddArgs : AddTransaction(a)
    \/ \E a \in EditArgs : EditTransaction(a)
    \/ \E i \in Indexes : RemoveTransaction(i)

Spec == Init /\ [][Next]_vars

\* -------------------------------------------- the store with any float

\* float('nan') is a float: the edit prompt of the app passes float(text) on.
NextFloat ==
    \/ \E a \in AddArgs \cup {[BaseAddArgs EXCEPT !.amount = NaN]} :
           AddTransaction(a)
    \/ \E a \in EditArgs \cup
                 {[index |-> 0, description |-> None, amount |-> Some(NaN),
                   transaction_type |-> None]} :
           EditTransaction(a)
    \/ \E i \in Indexes : RemoveTransaction(i)

SpecFloat == Init /\ [][NextFloat]_vars

\* ------------------------------------------------------ the store by dates

NextSort ==
    \/ \E a \in SortAddArgs : AddTransaction(a)
    \/ \E a \in SortEditArgs : EditTransaction(a)
    \/ \E i \in Indexes : RemoveTransaction(i)

SpecSort == Init /\ [][NextSort]_vars

\* --------------------------------------------------- the store with budgets

NextBudget ==
    \/ \E a \in BudgetAddArgs : AddTransaction(a)
    \/ \E i \in Indexes : RemoveTransaction(i)
    \/ \E a \in SetBudgetArgs : SetBudget(a)
    \/ CalculateBalance

SpecBudget == Init /\ [][NextBudget]_vars

\* ------------------------------------------------- the store and its files

NextPersist ==
    \/ \E a \in PersistAddArgs : AddTransaction(a)
    \/ \E a \in PersistBudgetArgs : SetBudget(a)
    \/ SaveToFile(DATA_FILE)
    \/ \E f \in {DATA_FILE, BakName(DATA_FILE)} : LoadFromFile(f)
    \/ \E c \in ForeignContents : ForeignWrite(c)
    \/ FlipChecksum

SpecPersist == Init /\ [][NextPersist]_vars

\* ------------------------------------------------ saves that can go wrong

NextSave ==
    \/ \E a \in PersistAddArgs : AddTransaction(a)
    \/ \E a \in PersistBudgetArgs : SetBudget(a)
    \/ SaveToFile(DATA_FILE)
    \/ \E fault \in SaveFaults : SaveToFileFailing(DATA_FILE, fault)
    \/ \E c \in ForeignContents : ForeignWrite(c)

SpecSave == Init /\ [][NextSave]_vars

\* ----------------------------------------------------- sessions of the app

NextSession ==
    \/ \E a \in PersistAddArgs : AddTransaction(a)
    \/ \E a \in PersistBudgetArgs : SetBudget(a)
    \/ SaveToFile(DATA_FILE)
    \/ InitializeManager

SpecSession == Init /\ [][NextSession]_vars

\* ------------------------------------------- sessions that restore a backup

NextRestore ==
    \/ \E a \in PersistAddArgs : AddTransaction(a)
    \/ SaveToFile(DATA_FILE)
    \/ InitializeManager
    \/ \E confirm \in BOOLEAN : RestoreBackup(confirm)
    \/ ForeignWrite(GarbageFile)

SpecRestore == Init /\ [][NextRestore]_vars

\* ------------------------------------------------------------------- goals

NextGoals ==
    \/ \E a \in SetGoalArgs : \E now \in Nows : SetFinancialGoal(a, now)
    \/ \E a \in AddToGoalArgs : AddToGoal(a)

SpecGoals == Init /\ [][NextGoals]_vars

\* ----------------------------------------------------------- goals, viewed

NextView ==
    \/ \E a \in SetGoalArgs : \E now \in Nows : SetFinancialGoal(a, now)
    \/ \E a \in AddToGoalArgs : AddToGoal(a)
    \/ ViewGoals

SpecView == Init /\ [][NextView]_vars

\* ---------------------------------------------------- the store, filtered

NextFilter ==
    \/ \E a \in FilterAddArgs : AddTransaction(a)
    \/ \E a \in FilterEditArgs : EditTransaction(a)
    \/ \E i \in Indexes : RemoveTransaction(i)
    \/ \E a \in FilterArgs : FilterTransactions(a)

SpecFilter == Init /\ [][NextFilter]_vars

\* ------------------------------------------------ the store, reported on

NextReport ==
    \/ \E a \in ReportAddArgs : AddTransaction(a)
    \/ \E i \in Indexes : RemoveTransaction(i)
    \/ \E a \in ReportBudgetArgs : SetBudget(a)
    \/ \E ym \in ReportMonths : MonthlyReport(ym[1], ym[2])

SpecReport == Init /\ [][NextReport]_vars

\* ------------------------------------------------- amounts being validated

NextAmount ==
    \/ \E c \in AmountChars : TypeChar(c)
    \/ \E o \in AmountOptions : ValidateAmount(o)
    \/ \E x \in AmountNumbers : \E o \in AmountOptions : ValidateNumber(x, o)

SpecAmount == Init /\ [][NextAmount]_vars

\* --------------------------------------------------- dates being validated

NextDate ==
    \E date_str \in DateTexts : \E allow_future \in BOOLEAN : \E now \in Nows :
        ValidateDate(date_str, allow_future, now)

SpecDate == Init /\ [][NextDate]_vars

\* ------------------------------------------------------------------ claims

\* C1: for a ledger without goals, save_to_file(path) followed at once by
\* load_from_file(path) returns a ledger with the same transactions and
\* budgets.
C1_RoundTrip ==
    [][(/\ call.op = "save_to_file"
        /\ call.ok
        /\ call'.op = "load_from_file"
        /\ call'.file = call.file
        /\ goals = EmptyDict)
       => (/\ loaded'.transactions = transactions
           /\ loaded'.budgets = budgets)]_vars

\* The content is a dict of the layout and digest save_to_file writes.
WrittenBySave(content) ==
    /\ content.kind = "dict"
    /\ DOMAIN content.data =
           {"transactions", "budgets", "goals", "checksum", "version"}
    /\ content.data = Snapshot(content.data)

\* C2: a session that starts while the data file holds a snapshot written by
\* save_to_file starts with that snapshot's transactions and budgets.
C2_SessionRestoresSnapshot ==
    [][(/\ call'.op = "initialize_manager"
        /\ Exists(fs, DATA_FILE)
        /\ WrittenBySave(fs[DATA_FILE]))
       => (/\ transactions' = fs[DATA_FILE].data.transactions
           /\ budgets' = fs[DATA_FILE].data.budgets)]_vars

\* The stored checksum is not the digest of the rest of the dict.
ChecksumDiffers(data) ==
    "checksum" \in DOMAIN data /\ data.checksum # Digest(WithoutChecksum(data))

\* C3: load_from_file raises nothing, and for a missing file, a file that
\* holds no dict, or a dict whose stored checksum differs from the recomputed
\* one it returns a ledger without transactions, budgets and goals.
C3_LoadFallsBackToEmpty ==
    \A f \in {DATA_FILE, BakName(DATA_FILE), BACKUP_FILE} :
        LET r == load_from_file(fs, f)
        IN /\ ~r.raised
           /\ (\/ ~Exists(fs, f)
               \/ fs[f].kind # "dict"
               \/ ChecksumDiffers(fs[f].data))
              => (/\ r.transactions = <<>>
                  /\ r.budgets = EmptyDict
                  /\ r.goals = EmptyDict)

\* A load has just rejected a file for its checksum, and the file holds
\* transactions.
C3_Witness ==
    /\ call.op = "load_from_file"
    /\ call.msg = "checksum_invalido"
    /\ fs[call.file].data.transactions # <<>>
    /\ loaded = NewManager

\* C11: a save that succeeds on an existing file leaves the file's former
\* content under the name with '.bak' appended and the new snapshot under the
\* name itself; a save onto a name that did not exist leaves the backup name
\* as it was, present or absent.
C11_BackupRotation ==
    [][(call'.op = "save_to_file" /\ call'.ok) =>
          LET f == call'.file
              b == BakName(f)
          IN IF Exists(fs, f)
             THEN /\ Exists(fs', b)
                  /\ fs'[b] = fs[f]
                  /\ fs'[f] = DictFile(Snapshot(Manager))
             ELSE /\ Exists(fs', b) <=> Exists(fs, b)
                  /\ Exists(fs, b) => fs'[b] = fs[b]
                  /\ fs'[f] = DictFile(Snapshot(Manager))]_vars

\* A save has just succeeded, and the backup holds an older snapshot with a
\* transaction in it while the file holds a newer one.
C11_Witness ==
    /\ call.op = "save_to_file"
    /\ call.ok
    /\ Exists(fs, BakName(DATA_FILE))
    /\ fs[BakName(DATA_FILE)].kind = "dict"
    /\ fs[BakName(DATA_FILE)].data.transactions # <<>>
    /\ fs[DATA_FILE] # fs[BakName(DATA_FILE)]

\* C12: a save that fails answers False, leaves transactions, budgets and
\* goals as they were, and what the file held before the call is still
\* under the file's name or under the backup name.
C12_SaveFailureSafety ==
    [][(call'.op = "save_to_file" /\ ~call'.ok) =>
          LET f == call'.file
              b == BakName(f)
          IN /\ UNCHANGED <<transactions, budgets, goals>>
             /\ Exists(fs, f) =>
                    \/ Exists(fs', f) /\ fs'[f] = fs[f]
                    \/ Exists(fs', b) /\ fs'[b] = fs[f]]_vars

\* A save has just failed in the write: the file holds an incomplete pickle
\* and the backup holds a snapshot with a transaction in it.
C12_Witness ==
    /\ call.op = "save_to_file"
    /\ ~call.ok
    /\ Exists(fs, DATA_FILE)
    /\ fs[DATA_FILE] = GarbageFile
    /\ Exists(fs, BakName(DATA_FILE))
    /\ fs[BakName(DATA_FILE)].kind = "dict"
    /\ fs[BakName(DATA_FILE)].data.transactions # <<>>
    /\ transactions # <<>>

\* C13: a confirmed restore_backup that finds no data file and a backup
\* written by a save makes the backup's content the data file and the
\* session's ledger the one stored in it.
C13_RestoreRecovers ==
    [][(/\ call'.op = "restore_backup"
        /\ call'.confirm
        /\ ~Exists(fs, DATA_FILE)
        /\ Exists(fs, BACKUP_FILE)
        /\ WrittenBySave(fs[BACKUP_FILE]))
       => (/\ Exists(fs', DATA_FILE)
           /\ fs'[DATA_FILE] = fs[BACKUP_FILE]
           /\ transactions' = fs[BACKUP_FILE].data.transactions
           /\ budgets' = fs[BACKUP_FILE].data.budgets)]_vars

\* C14: a restore_backup whose load fails leaves the session's transactions,
\* budgets and goals as they were.
C14_FailedLoadKeepsLedger ==
    [][(call'.op = "restore_backup" /\ call'.load # "")
       => UNCHANGED <<transactions, budgets, goals>>]_vars

\* What the specification calls an invalid value of each field.
BlankText(x) == \A i \in 1..Len(x) : x[i] = " "
BadKind(k) == \A v \in TransactionTypes : Lower(k) # v
BadAmount(a) == a.t # "num" \/ ~(a.v > 0)
Positive(x) == x.t = "num" /\ x.v > 0
BadDate(d) == d.tag \notin {"str", "datetime"} \/ (d.tag = "str" /\ strptime(d) = None)

AnySuppliedInvalid(a) ==
    \/ a.description # None /\ BlankText(a.description[1])
    \/ a.amount # None /\ BadAmount(a.amount[1])
    \/ a.transaction_type # None /\ BadKind(a.transaction_type[1])

\* C15: set_financial_goal with a target amount <= 0 fails and leaves the
\* goals as they were, and every stored goal has a target amount > 0.
C15_GoalTargetPositive ==
    /\ \A a \in SetGoalArgs : \A now \in Nows :
          LeZero(a.target_amount) =>
              LET r == set_financial_goal(goals, a.goal_name, a.target_amount,
                                          a.target_date, now)
              IN ~r.ok /\ r.goals = goals
    /\ \A n \in DOMAIN goals : Positive(goals[n].target_amount)

\* add_to_goal fails, and changes nothing, for a name without a goal and for
\* an amount <= 0.
AddToGoalRejects ==
    (/\ call'.op = "add_to_goal"
     /\ (call'.goal_name \notin DOMAIN goals \/ call'.amount.v <= 0))
    => (~call'.ok /\ goals' = goals)

\* The step is a successful add_to_goal of an amount > 0 to the goal n, and
\* the goal's saved amount grows by just that amount.
Contribution(n) ==
    /\ call'.op = "add_to_goal"
    /\ call'.ok
    /\ call'.goal_name = n
    /\ call'.amount.v > 0
    /\ goals'[n].saved_amount = Num(goals[n].saved_amount.v + call'.amount.v)

C17_SetGoalChecksDate ==
    \A a \in SetGoalArgs : \A now \in Nows :
        LET r == set_financial_goal(goals, a.goal_name, a.target_amount,
                                    a.target_date, now)
            parsed == strptime(a.target_date)
        IN /\ (parsed = None \/ BeforeNow(parsed[1], now))
                 => (~r.ok /\ ~r.raised /\ r.goals = goals)
           /\ r.ok =>
                 /\ DOMAIN r.goals = DOMAIN goals \cup {a.goal_name}
                 /\ r.goals[a.goal_name].saved_amount = Num(0)
                 /\ r.goals[a.goal_name].target_amount = a.target_amount
                 /\ r.goals[a.goal_name].target_date = parsed[1]
                 /\ \A n \in DOMAIN goals \ {a.goal_name} :
                        r.goals[n] = goals[n]

\* A goal with savings is in place and a set_financial_goal for its name
\* was just refused for a target date in the past.
C17_Witness ==
    /\ call.op = "set_financial_goal"
    /\ ~call.ok
    /\ call.msg = "data_passada"
    /\ call.goal_name \in DOMAIN goals
    /\ goals[call.goal_name].saved_amount.v > 0

C5_EditBadAmountRejected ==
    \A i \in Indexes : \A n \in {-5, -1, 0} :
        LET r == edit_transaction(transactions, i, None, Some(Num(n)), None)
        IN ~r.ok /\ r.transactions = transactions

C5_Witness ==
    /\ call.op = "edit_transaction"
    /\ ~call.ok
    /\ call.msg = "valor_invalido"
    /\ transactions # <<>>

\* C6: the transaction sequence is in non-decreasing date order in every
\* state reached from the empty ledger by add, edit and remove calls.
C6_SortedByDate ==
    \A i \in 1..(Len(transactions) - 1) :
        DateLeq(transactions[i].date, transactions[i + 1].date)

C6_Witness ==
    /\ call.op = "add_transaction"
    /\ call.ok
    /\ Len(transactions) >= 2
    /\ DateLess(transactions[1].date, transactions[Len(transactions)].date)

\* C7: every stored transaction has amount > 0, kind receita or despesa, and
\* a description and category that are non-empty and carry no outer blanks.
C7_FieldInvariant ==
    \A i \in 1..Len(transactions) :
        LET t == transactions[i]
        IN /\ Positive(t.amount)
           /\ t.type \in {receita, despesa}
           /\ t.description # <<>>
           /\ ~IsSpace(t.description[1])
           /\ ~IsSpace(t.description[Len(t.description)])
           /\ t.category # <<>>
           /\ ~IsSpace(t.category[1])
           /\ ~IsSpace(t.category[Len(t.category)])

ValidAdd(a) ==
    /\ ~BadKind(a.transaction_type)
    /\ ~BadAmount(a.amount)
    /\ ~BadDate(a.date)
    /\ ~BlankText(a.description)
    /\ ~BlankText(a.category)

\* C8: add_transaction with an invalid kind, amount, date, description or
\* category returns False and leaves the sequence unchanged; a valid add
\* returns True and makes the sequence exactly one longer.
C8_AddChecksArguments ==
    \A a \in AllAddArgs :
        LET r == add_transaction(transactions, a.description, a.amount,
                                 a.transaction_type, a.category, a.date)
        IN IF ValidAdd(a)
           THEN r.ok /\ Len(r.transactions) = Len(transactions) + 1
           ELSE ~r.ok /\ r.transactions = transactions

C8_Witness ==
    /\ call.op = "add_transaction"
    /\ ~call.ok
    /\ call.msg = "data_invalida"
    /\ transactions # <<>>

\* The sum of the amounts of the transactions at the positions in S.
RECURSIVE SumAt(_, _)
SumAt(S, txs) ==
    IF S = {} THEN 0
    ELSE LET i == CHOOSE j \in S : TRUE
         IN txs[i].amount.v + SumAt(S \ {i}, txs)

IncomeOf(txs) == SumAt({i \in 1..Len(txs) : txs[i].type = receita}, txs)
ExpenseOf(txs) == SumAt({i \in 1..Len(txs) : txs[i].type = despesa}, txs)

\* C9: calculate_balance returns the sum of the income amounts, the sum of
\* the expense amounts and their difference, and leaves the ledger unchanged.
C9_BalanceCorrect ==
    [][call'.op = "calculate_balance" =>
          /\ call'.ret.receita_total = Num(IncomeOf(transactions))
          /\ call'.ret.despesa_total = Num(ExpenseOf(transactions))
          /\ call'.ret.saldo =
                 Num(IncomeOf(transactions) - ExpenseOf(transactions))
          /\ UNCHANGED <<transactions, budgets, goals>>]_vars

C9_Witness ==
    /\ call.op = "calculate_balance"
    /\ call.ret.receita_total.v > 0
    /\ call.ret.despesa_total.v > call.ret.receita_total.v
    /\ call.ret.saldo.v < 0

\* The expenses booked under exactly this category.
SpendOf(txs, c) ==
    SumAt({i \in 1..Len(txs) : txs[i].type = despesa /\ txs[i].category = c}, txs)

\* C10: the exceeded-budget report holds a category iff the category has a
\* budget and its exact-match expenses are strictly above the limit, and the
\* reported excess is spent - limit.
C10_BudgetExceeded ==
    call.op = "calculate_balance" =>
        LET ex == call.ret.categorias_com_problema
        IN /\ DOMAIN ex \subseteq DOMAIN budgets
           /\ \A c \in DOMAIN budgets :
                 c \in DOMAIN ex <=> SpendOf(transactions, c) > budgets[c].v
           /\ \A c \in DOMAIN ex :
                 /\ ex[c].gasto = Num(SpendOf(transactions, c))
                 /\ ex[c].orcamento = budgets[c]
                 /\ ex[c].excedido = Num(SpendOf(transactions, c) - budgets[c].v)

\* One budget is exceeded; the other category, which differs only in case,
\* is budgeted, spent exactly up to its limit, and not reported.
C10_Witness ==
    /\ call.op = "calculate_balance"
    /\ DOMAIN budgets = {<<"c">>, <<"C">>}
    /\ DOMAIN call.ret.categorias_com_problema = {<<"c">>}
    /\ call.ret.categorias_com_problema[<<"c">>].excedido = Num(1)
    /\ Num(SpendOf(transactions, <<"C">>)) = budgets[<<"C">>]

Values(entries) == [k \in 1..Len(entries) |-> entries[k].val]

\* The transaction satisfies every criterion the arguments give.
Matches(t, a) ==
    /\ a.category # None => Lower(t.category) = Lower(a.category[1])
    /\ a.start_date # None =>
           DateLeq(a.start_date[1], t.date) /\ DateLeq(t.date, a.end_date[1])
    /\ a.transaction_type # None => t.type = a.transaction_type[1]

C20_FilterResultIndependent ==
    [][call'.op \in {"add_transaction", "edit_transaction",
                     "remove_transaction"}
       => Values(filtered') = Values(filtered)]_vars

\* The places in the store of the transactions dated in the month.
InMonth(txs, year, month) ==
    {i \in 1..Len(txs) : txs[i].date.year = year /\ txs[i].date.month = month}

\* C21: monthly_report returns the empty dict just when no transaction is
\* dated in the month; otherwise its totals are the sums of the month's
\* income and of the month's expenses and its balance is their difference;
\* the ledger stays as it was.
C21_MonthlyReportTotals ==
    [][call'.op = "monthly_report" =>
          LET ret == call'.ret
              M == InMonth(transactions, call'.year, call'.month)
              income == SumAt({i \in M : transactions[i].type = receita},
                              transactions)
              expenses == SumAt({i \in M : transactions[i].type = despesa},
                                transactions)
          IN /\ (DOMAIN ret = {}) <=> (M = {})
             /\ M # {} =>
                    /\ ret.total_income = Num(income)
                    /\ ret.total_expenses = Num(expenses)
                    /\ ret.balance = Num(income - expenses)
             /\ UNCHANGED <<transactions, budgets, goals>>]_vars

\* A report on a month with an income has just been returned, while another
\* month holds an expense.
C21_Witness ==
    /\ call.op = "monthly_report"
    /\ DOMAIN call.ret # {}
    /\ call.ret.total_income = Num(1)
    /\ call.ret.total_expenses = Num(0)
    /\ \E i \in 1..Len(transactions) : transactions[i].type = despesa

\* C29: the budget status of a monthly report names a budgeted category just
\* when the expenses of that month in the category are above the limit.
C29_ReportBudgetByMonth ==
    [][(call'.op = "monthly_report" /\ DOMAIN call'.ret # {}) =>
          LET M == InMonth(transactions, call'.year, call'.month)
              spent(c) == SumAt({i \in M : /\ transactions[i].type = despesa
                                           /\ transactions[i].category = c},
                                transactions)
          IN \A c \in DOMAIN budgets :
                 c \in DOMAIN call'.ret.budget_status
                     <=> spent(c) > budgets[c].v]_vars

\* validate_amount has just been called on a text, with the default keyword
\* arguments.
TextValidated ==
    /\ call.op = "validate_amount"
    /\ call.amount.tag = "str"
    /\ call.options = DefaultAmountOptions

\* The text is digits with the separators written between digits.
Grouped(s) ==
    /\ \A i \in 1..Len(s) : IsDigit(s[i]) \/ s[i] \in {".", ","}
    /\ \A i \in 1..Len(s) :
          s[i] \in {".", ","} =>
              /\ i > 1 /\ IsDigit(s[i - 1])
              /\ i < Len(s) /\ IsDigit(s[i + 1])

\* The number the text writes when its last separator is the decimal one
\* and any separator before it only groups digits.
LastSeparatorDecimal(s) ==
    LET last == CHOOSE i \in 1..Len(s) :
                    /\ s[i] \in {".", ","}
                    /\ \A j \in (i + 1)..Len(s) : s[j] \notin {".", ","}
    IN Dec(DigitsToInt(SelectSeq(s, IsDigit)), Len(s) - last)

\* C22: a text with one '.' and one ',' is read with the later of the two
\* as the decimal separator and the other one dropped, and a text with a
\* ',' alone is read with the ',' as the decimal separator.
C22_SeparatorRule ==
    (/\ TextValidated
     /\ Grouped(call.amount.text)
     /\ Count(call.amount.text, ",") = 1
     /\ Count(call.amount.text, ".") <= 1)
    => (/\ call.ret.ok
        /\ DecEq(call.ret.value, LastSeparatorDecimal(call.amount.text)))

\* C23: a text whose only separator is one '.' is read with the '.' as the
\* decimal point, and a float or int that is not negative comes back as the
\* number it is.
C23_LonePointDecimal ==
    /\ (/\ TextValidated
         /\ Grouped(call.amount.text)
         /\ Count(call.amount.text, ".") = 1
         /\ Count(call.amount.text, ",") = 0)
        => (/\ call.ret.ok
            /\ DecEq(call.ret.value, LastSeparatorDecimal(call.amount.text)))
    /\ (/\ call.op = "validate_amount"
         /\ call.amount.tag \in {"int", "float"}
         /\ call.options = DefaultAmountOptions
         /\ call.amount.value.m >= 0)
        => (call.ret.ok /\ DecEq(call.ret.value, call.amount.value))

\* C24: a text with more than one '.' or more than one ',' is refused.
C24_RepeatedSeparatorRefused ==
    (/\ call.op = "validate_amount"
     /\ call.amount.tag = "str"
     /\ (Count(call.amount.text, ".") > 1 \/ Count(call.amount.text, ",") > 1))
    => ~call.ret.ok

\* The value meets the constraints the keyword arguments set.
MeetsOptions(v, o) ==
    /\ o.allow_negative \/ ~DecLess(v, Dec(0, 0))
    /\ o.allow_zero \/ ~DecEq(v, Dec(0, 0))
    /\ o.max_value # None => ~DecLess(o.max_value[1], v)
    /\ o.min_value # None => ~DecLess(v, o.min_value[1])

\* C25: on a text validate_amount returns (True, value) or (False, message);
\* a text of digits alone gives (True, n) for the n it writes; a text without
\* a digit gives (False, message); and a value is returned only if it meets
\* the constraints passed in.
C25_AmountTextValidated ==
    (call.op = "validate_amount" /\ call.amount.tag = "str") =>
        LET text == call.amount.text
            ret == call.ret
        IN /\ ret.ok \in BOOLEAN
           /\ DOMAIN ret = IF ret.ok THEN {"ok", "value"} ELSE {"ok", "msg"}
           /\ (/\ text # <<>>
               /\ \A i \in 1..Len(text) : IsDigit(text[i])
               /\ call.options = DefaultAmountOptions)
              => (ret.ok /\ DecEq(ret.value, Dec(DigitsToInt(text), 0)))
           /\ (\A i \in 1..Len(text) : ~IsDigit(text[i])) => ~ret.ok
           /\ ret.ok => MeetsOptions(ret.value, call.options)

\* A text that writes a number was just refused for being below min_value.
C25_Witness ==
    /\ call.op = "validate_amount"
    /\ call.amount.tag = "str"
    /\ ~call.ret.ok
    /\ call.ret.msg = "abaixo_do_minimo"

\* The three numbers are a day of the calendar.
RealDate(d, m, y) ==
    /\ m \in 1..12
    /\ d \in 1..31
    /\ m \in {4, 6, 9, 11} => d <= 30
    /\ m = 2 => d <= 29
    /\ (m = 2 /\ d = 29) => IsLeap(y)

\* C26: validate_date fails on a text that writes no day of the calendar,
\* fails on a day later than the current time when allow_future is false,
\* and otherwise succeeds with the day the text writes.
C26_ValidateDate ==
    call.op = "validate_date" =>
        LET text == call.date_str
            real == text.fmt /\ RealDate(text.d, text.m, text.y)
            later == \/ text.y > call.now.date.year
                     \/ /\ text.y = call.now.date.year
                        /\ text.m > call.now.date.month
                     \/ /\ text.y = call.now.date.year
                        /\ text.m = call.now.date.month
                        /\ text.d > call.now.date.day
        IN IF ~real THEN ~call.ret.ok
           ELSE IF ~call.allow_future /\ later THEN ~call.ret.ok
           ELSE /\ call.ret.ok
                /\ call.ret.value = DateTime(text.y, text.m, text.d)

\* A day of the calendar was just refused for lying after the clock's day.
C26_Witness ==
    /\ call.op = "validate_date"
    /\ ~call.allow_future
    /\ call.date_str.fmt
    /\ RealDate(call.date_str.d, call.date_str.m, call.date_str.y)
    /\ ~call.ret.ok

\* C27: the checksum in a file written by save_to_file is the digest of its
\* transactions and budgets, and load_from_file, recomputing the digest over
\* the same two, accepts every such file.
C27_SaveLoadSameDigest ==
    \A f \in DOMAIN fs :
        WrittenBySave(fs[f]) =>
            /\ fs[f].data.checksum =
                   Digest([transactions |-> fs[f].data.transactions,
                           budgets |-> fs[f].data.budgets])
            /\ load_from_file(fs, f).msg # "checksum_invalido"

\* C28: restore_backup, confirmed, reads the backup save_to_file keeps of
\* the data file: the content of DATA_FILE + '.bak' becomes the data file
\* and its transactions the session's.
C28_RestoreUsesRollingBackup ==
    [][(/\ call'.op = "restore_backup"
        /\ call'.confirm
        /\ Exists(fs, DATA_FILE)
        /\ Exists(fs, BakName(DATA_FILE))
        /\ WrittenBySave(fs[BakName(DATA_FILE)]))
       => (/\ Exists(fs', DATA_FILE)
           /\ fs'[DATA_FILE] = fs[BakName(DATA_FILE)]
           /\ transactions' = fs[BakName(DATA_FILE)].data.transactions)]_vars

\* C30: view_goals completes on every goal mapping that set_financial_goal
\* and add_to_goal can build, with saved_amount / target_amount * 100 as the
\* progress of each goal.
C30_ViewGoalsCompletes ==
    call.op = "view_goals" =>
        /\ ~call.ret.raised
        /\ \A n \in DOMAIN goals :
              /\ goals[n].target_amount.v # 0
              /\ call.ret.progress[n] = Percent(goals[n])

====
